---- MODULE Spec2Model ----
(***************************************************************************)
(* A model of dircheck (src/dircheck.py): the directory scan, the snapshot *)
(* (hash) file written and read through the csv module, and the sorted     *)
(* merge of compare_csv, together with the two runs `hash' and `check'.    *)
(*                                                                         *)
(* Strings of the program are sequences of character codes, so that the    *)
(* program's comparisons (==, <, the sort keys) are computed as Python     *)
(* computes them.  The empty string '' is << >>.                           *)
(***************************************************************************)
EXTENDS Integers, Sequences, FiniteSets, TLC

(***************************************************************************)
(* Bounds of the model.                                                    *)
(***************************************************************************)
\* rows of a hand-made snapshot file in SpecDiff
MaxRows == 3
\* changes the user makes to the tree in Spec
MaxEdits == 1
\* largest modification time the file system clock reaches
MaxClock == 2

(***************************************************************************)
(* Strings.                                                                *)
(***************************************************************************)
Slash == <<47>>
NoneStr == <<110, 111, 110, 101>>
T_dir == <<100, 105, 114>>
T_chr == <<99, 104, 114>>
T_blk == <<98, 108, 107>>
T_file == <<102, 105, 108, 101>>
T_fifo == <<102, 105, 102, 111>>
T_lnk == <<108, 110, 107>>
T_sock == <<115, 111, 99, 107>>

\* Python's < on str: lexicographic by code point, a proper prefix is smaller
RECURSIVE StrLess(_, _)
StrLess(a, b) ==
    IF b = << >> THEN FALSE
    ELSE IF a = << >> THEN TRUE
    ELSE IF Head(a) # Head(b) THEN Head(a) < Head(b)
    ELSE StrLess(Tail(a), Tail(b))

\* str(n) for n >= 0: the decimal digits
RECURSIVE Str(_)
Str(n) == IF n < 10 THEN <<48 + n>> ELSE Str(n \div 10) \o <<48 + (n % 10)>>

\* hashlib's hexdigest: never empty, and a function of the bytes read alone.
\* The digest itself is kept symbolic: a one-letter tag followed by the bytes.
hash_file(content, hash_type) ==
    (IF hash_type = "md5" THEN <<109>> ELSE <<115>>) \o content

(***************************************************************************)
(* The snapshot file format.                                               *)
(***************************************************************************)
csv_fieldnames == <<"filename", "type", "mtime", "link", "size", "md5", "sha256">>

FieldSet == {csv_fieldnames[i] : i \in 1..Len(csv_fieldnames)}

NoEntry == [kind |-> "none", mtime |-> 0, content |-> << >>, target |-> << >>]

\* st_size of a directory (one file system block)
DirStSize == 4096

\* os.lstat(...).st_size
StSize(e) ==
    CASE e.kind = "file" -> Len(e.content)
      [] e.kind = "lnk" -> Len(e.target)
      [] e.kind = "dir" -> DirStSize
      [] OTHER -> 0

TypeName(kind) ==
    CASE kind = "dir" -> T_dir
      [] kind = "chr" -> T_chr
      [] kind = "blk" -> T_blk
      [] kind = "file" -> T_file
      [] kind = "fifo" -> T_fifo
      [] kind = "lnk" -> T_lnk
      [] kind = "sock" -> T_sock

\* the 'size' cell of a record
ScanSize(e) == Str(StSize(e))

\* a mutant of scan_file that leaves the trailing '/' off a directory's name
RelFilenameNoSlash(rel, e) == rel

\* the 'filename' cell: the path relative to data_dir, '/' appended for a dir
RelFilename(rel, e) == IF e.kind = "dir" THEN rel \o Slash ELSE rel

\* scan_file for an entry of a recognized kind, at relative path rel
scan_file(rel, e) ==
    [filename |-> RelFilename(rel, e),
     type     |-> TypeName(e.kind),
     mtime    |-> Str(e.mtime),
     link     |-> IF e.kind = "lnk" THEN e.target ELSE << >>,
     size     |-> ScanSize(e),
     md5      |-> IF e.kind = "file" THEN hash_file(e.content, "md5") ELSE << >>,
     sha256   |-> IF e.kind = "file" THEN hash_file(e.content, "sha256") ELSE << >>]

\* csv.DictWriter.writerow: the cells in the order of csv_fieldnames
WriteRow(rec) == [i \in 1..Len(csv_fieldnames) |-> rec[csv_fieldnames[i]]]

NoFile == [exists |-> FALSE, header |-> << >>, rows |-> << >>]
EmptyFile == [exists |-> TRUE, header |-> << >>, rows |-> << >>]

\* the file hash_action writes for a scan
WriteCsv(db) ==
    [exists |-> TRUE, header |-> csv_fieldnames,
     rows |-> [i \in 1..Len(db) |-> WriteRow(db[i])]]

\* the column a key is read from: dict(zip(fieldnames, row)) keeps the last
LastIndex(header, k) ==
    CHOOSE i \in 1..Len(header) :
        header[i] = k /\ \A j \in (i + 1)..Len(header) : header[j] # k

\* csv.DictReader with restval='': a short row's missing cells are '', the
\* cells beyond the header are collected under the key None
ReadRow(header, row) ==
    [k \in {header[i] : i \in 1..Len(header)}
            \cup (IF Len(row) > Len(header) THEN {"None"} ELSE {}) |->
        IF k \in {header[i] : i \in 1..Len(header)}
        THEN IF LastIndex(header, k) <= Len(row)
             THEN row[LastIndex(header, k)] ELSE << >>
        ELSE SubSeq(row, Len(header) + 1, Len(row))]

\* [row for row in reader]: DictReader skips the rows that are empty
RECURSIVE ReadRows(_, _)
ReadRows(header, rows) ==
    IF rows = << >> THEN << >>
    ELSE IF Head(rows) = << >> THEN ReadRows(header, Tail(rows))
    ELSE <<ReadRow(header, Head(rows))>> \o ReadRows(header, Tail(rows))

\* insertion of x into a list sorted by 'filename', after the equal keys
RECURSIVE InsertByFilename(_, _)
InsertByFilename(x, s) ==
    IF s = << >> THEN <<x>>
    ELSE IF StrLess(x.filename, Head(s).filename) THEN <<x>> \o s
    ELSE <<Head(s)>> \o InsertByFilename(x, Tail(s))

\* a mutant of the sort: the list is left in the order it was read
SortUnsorted(s) == s

\* list.sort(key = lambda x: x['filename']): stable, ascending
RECURSIVE SortByFilename(_)
SortByFilename(s) ==
    IF s = << >> THEN << >>
    ELSE InsertByFilename(s[Len(s)], SortByFilename(SubSeq(s, 1, Len(s) - 1)))

(***************************************************************************)
(* The file system and the program's state.                                *)
(***************************************************************************)
NameA == <<97>>
NameB == <<98>>
Names == {NameA, NameB}
\* 'dircheck.csv'
CsvName == <<100, 105, 114, 99, 104, 101, 99, 107, 46, 99, 115, 118>>

\* places relative to data_dir: an entry of data_dir, or of a subdirectory
Locs == {<<n>> : n \in Names} \cup {<<NameA, m>> : m \in Names}

\* absolute paths are sequences of components; data_dir is /d
DataDir == << <<100>> >>
AbsPath(loc) == DataDir \o loc
\* a hash file given with -f that lies outside data_dir
OutsideCsv == << <<111>>, CsvName >>

VARIABLES
    fs,        \* Locs -> entry: the tree under data_dir (NoEntry: nothing there)
    clock,     \* the file system's time
    csv_file,  \* self.csv_file, as an absolute path
    snap,      \* the content of the file at csv_file
    action,    \* args.action
    pc,        \* where the run is
    scan_db,   \* self.scan_db
    csv_db,    \* compare_csv's csv_db
    scan_idx,  \* compare_csv's scan_idx
    csv_idx,   \* compare_csv's csv_idx
    msgs,      \* what msgfunc was called with, in order
    outcome,   \* how the run ended
    iters,     \* iterations of compare_csv's loop in this run
    oldSnap,   \* the content of the file at csv_file when the run started
    hashedAt,  \* Len(log) when the last hash run succeeded; -1: the file at
               \* csv_file is not the work of a hash run that succeeded
    created,   \* that hash run created the file at csv_file
    log        \* the user's changes to the tree, in order

vars == <<fs, clock, csv_file, snap, action, pc, scan_db, csv_db, scan_idx,
          csv_idx, msgs, outcome, iters, oldSnap, hashedAt, created, log>>

\* os.path.join(...) as the program prints it: components joined by '/'
RECURSIVE Join(_)
Join(loc) ==
    IF Len(loc) = 1 THEN loc[1]
    ELSE loc[1] \o Slash \o Join(Tail(loc))

Parent(loc) == SubSeq(loc, 1, Len(loc) - 1)

\* the directory holding the file at csv_file, when it is a place of the tree
CsvDirLoc == SubSeq(csv_file, Len(DataDir) + 1, Len(csv_file) - 1)
CsvInTree == SubSeq(csv_file, 1, Len(DataDir)) = DataDir
CsvDirIsDir ==
    IF ~CsvInTree THEN TRUE
    ELSE IF CsvDirLoc = << >> THEN TRUE
    ELSE CsvDirLoc \in Locs /\ fs[CsvDirLoc].kind = "dir"

\* os.listdir(dirpath), as absolute paths: the entries of the tree in that
\* directory and, when it lies there, the hash file itself
ListDir(f, dir, file) ==
    {AbsPath(l) : l \in {x \in Locs : Parent(x) = dir /\ f[x].kind # "none"}}
        \cup (IF file.exists /\ csv_file = AbsPath(dir) \o <<CsvName>>
              THEN {csv_file} ELSE {})

\* a mutant of scan_dir without the test that skips the hash file
ScannedPathsNoSkip(f, dir, file) == ListDir(f, dir, file)

\* scan_dir: the paths of one directory that are scanned
ScannedPaths(f, dir, file) == {p \in ListDir(f, dir, file) : p # csv_file}

\* the entry at an absolute path (the hash file is a regular file)
EntryAt(f, p) ==
    IF SubSeq(p, Len(DataDir) + 1, Len(p)) \in Locs
    THEN f[SubSeq(p, Len(DataDir) + 1, Len(p))]
    ELSE [kind |-> "file", mtime |-> clock, content |-> << >>, target |-> << >>]

RelLoc(p) == SubSeq(p, Len(DataDir) + 1, Len(p))

\* scan_dir(dirpath): every path lstat is called on, the directories' entries
\* included
RECURSIVE ScanPathsRec(_, _, _)
ScanPathsRec(f, dir, file) ==
    LET here == ScannedPaths(f, dir, file)
    IN  here \cup UNION {ScanPathsRec(f, RelLoc(p), file) :
                           p \in {q \in here : EntryAt(f, q).kind = "dir"}}

\* the records scan_dir appends; os.listdir's order is unspecified, so the
\* list before the sort is any enumeration of this set
ScanRecords(f, file) ==
    {scan_file(Join(RelLoc(p)), EntryAt(f, p)) : p \in ScanPathsRec(f, << >>, file)}

\* scan_file meets an entry of no recognized type: sys.exit
ScanHitsUnknown(f, file) ==
    \E p \in ScanPathsRec(f, << >>, file) : EntryAt(f, p).kind = "other"

\* one enumeration of a set of records with distinct filenames
RECURSIVE SetToSeq(_)
SetToSeq(S) ==
    IF S = {} THEN << >>
    ELSE LET x == CHOOSE y \in S : TRUE IN <<x>> \o SetToSeq(S \ {x})

\* self.scan_db after the scan and its sort
ScanDb(f, file) == SortByFilename(SetToSeq(ScanRecords(f, file)))

(***************************************************************************)
(* compare_csv.                                                            *)
(***************************************************************************)
\* the messages handed to msgfunc
MissingFromDisk(name) ==
    [kind |-> "disk", filename |-> name, field |-> "", old |-> << >>, new |-> << >>]
MissingFromHashFile(name) ==
    [kind |-> "hashfile", filename |-> name, field |-> "", old |-> << >>, new |-> << >>]
Changed(name) ==
    [kind |-> "changed", filename |-> name, field |-> "", old |-> << >>, new |-> << >>]

\* tstamp(val): the time rendered for reading (kept symbolic, 'T'), then the
\* raw value in parentheses; '?' when int(val) fails
IsDigits(val) == val # << >> /\ \A i \in 1..Len(val) : val[i] \in 48..57
tstamp(val) ==
    (IF IsDigits(val) THEN <<84>> ELSE <<63>>) \o <<40>> \o val \o <<41>>

\* old_val and new_val of a delta line
Shown(field, val) ==
    IF val = << >> THEN NoneStr
    ELSE IF field = "mtime" THEN tstamp(val)
    ELSE val

\* csv_file.get(field, '')
Get(rec, field) == IF field \in DOMAIN rec THEN rec[field] ELSE << >>

\* the delta lines of one changed entry: `for field in scan_file', in the
\* order the record was built in
RECURSIVE DeltasFrom(_, _, _)
DeltasFrom(i, scan_rec, csv_rec) ==
    IF i > Len(csv_fieldnames) THEN << >>
    ELSE LET field == csv_fieldnames[i]
         IN  (IF Get(scan_rec, field) # Get(csv_rec, field)
              THEN << [kind |-> "delta", filename |-> scan_rec.filename,
                       field |-> field,
                       old |-> Shown(field, Get(csv_rec, field)),
                       new |-> Shown(field, Get(scan_rec, field))] >>
              ELSE << >>)
             \o DeltasFrom(i + 1, scan_rec, csv_rec)

\* scan_file == csv_file: equality of the two dicts, keys and values
SameEntry(scan_rec, csv_rec) == scan_rec = csv_rec

\* the file can be loaded: os.path.isfile, a header line, 'filename' in it
LoadResult(file) ==
    IF ~file.exists THEN "fatal_nofile"
    ELSE IF file.header = << >> THEN "exception_load"
    ELSE IF "filename" \notin {file.header[i] : i \in 1..Len(file.header)}
         THEN "fatal_nofilename"
    ELSE "ok"

\* csv_db after `csv_db.sort(key = lambda x: x['filename'])'
LoadCsvDb(file) == SortByFilename(ReadRows(file.header, file.rows))

\* a mutant of check_action that never fails
CheckOutcomeAlwaysOk(error_occured) == "success"

\* check_action's end: sys.exit(1) when msgfunc was called, else the summary
CheckOutcome(error_occured) == IF error_occured THEN "exit1" ELSE "success"

RunVars == <<fs, clock, csv_file, snap, action, oldSnap, hashedAt, created, log>>

\* compare_csv up to its loop: the hash file is opened, read and sorted
LoadCsv ==
    /\ pc = "scanned"
    /\ (IF action = "check" THEN TRUE ELSE snap.exists)
    /\ IF LoadResult(snap) = "ok"
       THEN /\ csv_db' = LoadCsvDb(snap)
            /\ pc' = "compare"
            /\ outcome' = outcome
       ELSE /\ csv_db' = csv_db
            /\ pc' = "done"
            /\ outcome' = LoadResult(snap)
    /\ scan_idx' = 0
    /\ csv_idx' = 0
    /\ UNCHANGED <<scan_db, msgs, iters>>
    /\ UNCHANGED RunVars

LoopCond == scan_idx < Len(scan_db) \/ csv_idx < Len(csv_db)

\* one iteration of compare_csv's while loop
CompareStep ==
    /\ pc = "compare"
    /\ LoopCond
    /\ iters' = iters + 1
    /\ LET scanHas == scan_idx < Len(scan_db)
           csvHas  == csv_idx < Len(csv_db)
           prevHas == csv_idx >= 1 /\ csv_idx < Len(csv_db)
           scan_rec == scan_db[scan_idx + 1]
           csv_rec  == csv_db[csv_idx + 1]
           prev_rec == csv_db[csv_idx]
       IN  IF scanHas /\ csvHas /\ SameEntry(scan_rec, csv_rec)
           THEN /\ scan_idx' = scan_idx + 1
                /\ csv_idx' = csv_idx + 1
                /\ UNCHANGED <<msgs, pc, outcome>>
           ELSE IF csvHas /\ prevHas /\ csv_rec.filename = prev_rec.filename
           THEN /\ pc' = "done"
                /\ outcome' = "fatal_duplicate"
                /\ UNCHANGED <<msgs, scan_idx, csv_idx>>
           ELSE IF csvHas /\ (~scanHas \/ StrLess(csv_rec.filename, scan_rec.filename))
           THEN /\ msgs' = Append(msgs, MissingFromDisk(csv_rec.filename))
                /\ csv_idx' = csv_idx + 1
                /\ UNCHANGED <<scan_idx, pc, outcome>>
           ELSE IF scanHas /\ (~csvHas \/ StrLess(scan_rec.filename, csv_rec.filename))
           THEN /\ msgs' = Append(msgs, MissingFromHashFile(scan_rec.filename))
                /\ scan_idx' = scan_idx + 1
                /\ UNCHANGED <<csv_idx, pc, outcome>>
           ELSE /\ msgs' = Append(msgs, Changed(scan_rec.filename))
                             \o DeltasFrom(1, scan_rec, csv_rec)
                /\ scan_idx' = scan_idx + 1
                /\ csv_idx' = csv_idx + 1
                /\ UNCHANGED <<pc, outcome>>
    /\ UNCHANGED <<scan_db, csv_db>>
    /\ UNCHANGED RunVars

\* check_action after compare_csv has returned
CheckFinish ==
    /\ pc = "compare"
    /\ ~LoopCond
    /\ action = "check"
    /\ pc' = "done"
    /\ outcome' = CheckOutcome(msgs # << >>)
    /\ UNCHANGED <<scan_db, csv_db, scan_idx, csv_idx, msgs, iters>>
    /\ UNCHANGED RunVars

(***************************************************************************)
(* The runs: Main.__init__, hash_action, check_action.                     *)
(***************************************************************************)
\* a run can be started: none is under way.  Nothing more is started once
\* a run has died of an exception
Exceptions ==
    {"exception_scan", "exception_load", "exception_open", "exception_write"}
\* the runs ended by sys.exit with a message
Fatal == {"fatal_unknown", "fatal_nofile", "fatal_nofilename", "fatal_duplicate"}
Idle == pc \in {"idle", "done"} /\ outcome \notin Exceptions

Hashed == hashedAt >= 0
\* the user's changes since the last hash run that succeeded
SinceHash == SubSeq(log, hashedAt + 1, Len(log))

\* Main.__init__: the scan, its sort, and the dispatch on args.action
Scan(a) ==
    /\ Idle
    /\ action' = a
    /\ oldSnap' = snap
    /\ msgs' = << >>
    /\ iters' = 0
    /\ csv_db' = << >>
    /\ scan_idx' = 0
    /\ csv_idx' = 0
    /\ IF ScanHitsUnknown(fs, snap)
       THEN /\ scan_db' = << >>
            /\ pc' = "done"
            /\ outcome' = "fatal_unknown"
       ELSE /\ scan_db' = ScanDb(fs, snap)
            /\ pc' = "scanned"
            /\ outcome' = "running"
    /\ UNCHANGED <<fs, clock, csv_file, snap, hashedAt, created, log>>

\* os.lstat, os.readlink, open or readinto raises OSError for an entry of
\* the scan: nothing catches it, the run ends with a traceback
ScanIoError(a) ==
    /\ Idle
    /\ ScanPathsRec(fs, << >>, snap) # {}
    /\ action' = a
    /\ oldSnap' = snap
    /\ msgs' = << >>
    /\ iters' = 0
    /\ csv_db' = << >>
    /\ scan_db' = << >>
    /\ scan_idx' = 0
    /\ csv_idx' = 0
    /\ pc' = "done"
    /\ outcome' = "exception_scan"
    /\ UNCHANGED <<fs, clock, csv_file, snap, hashedAt, created, log>>

\* hash_action when there is no hash file yet
HashNoFile ==
    /\ pc = "scanned"
    /\ action = "hash"
    /\ ~snap.exists
    /\ pc' = "open"
    /\ UNCHANGED <<scan_db, csv_db, scan_idx, csv_idx, msgs, outcome, iters>>
    /\ UNCHANGED RunVars

\* hash_action after compare_csv has returned: the mismatches are shown and
\* the user is asked; msgs holds the mismatches without the heading line
HashAsk ==
    /\ pc = "compare"
    /\ ~LoopCond
    /\ action = "hash"
    /\ \E reply \in {"y", "N"} :
          IF msgs # << >> /\ reply # "y"
          THEN pc' = "done" /\ outcome' = "declined"
          ELSE pc' = "open" /\ outcome' = outcome
    /\ UNCHANGED <<scan_db, csv_db, scan_idx, csv_idx, msgs, iters>>
    /\ UNCHANGED RunVars

\* the times a change made now can be stamped with
Stamps == {t \in {clock, clock + 1} : t <= MaxClock}

\* a directory of the tree gets or loses an entry: its mtime is set
TouchDir(f, dir, t) ==
    IF dir = << >> THEN f ELSE [f EXCEPT ![dir].mtime = t]

\* open(self.csv_file, 'w'): the file is created or truncated
OpenCsv ==
    /\ pc = "open"
    /\ IF ~CsvDirIsDir
       THEN /\ pc' = "done"
            /\ outcome' = "exception_open"
            /\ UNCHANGED <<fs, clock, snap, hashedAt>>
       ELSE /\ pc' = "write"
            /\ outcome' = outcome
            /\ snap' = EmptyFile
            /\ hashedAt' = -1
            /\ IF ~snap.exists /\ CsvInTree
               THEN \E t \in Stamps :
                       /\ fs' = TouchDir(fs, CsvDirLoc, t)
                       /\ clock' = t
               ELSE UNCHANGED <<fs, clock>>
    /\ UNCHANGED <<csv_file, action, scan_db, csv_db, scan_idx, csv_idx, msgs,
                   iters, oldSnap, created, log>>

\* writer.writerow({field: field for field in csv_fieldnames})
WriteHeader ==
    /\ pc = "write"
    /\ snap.header = << >>
    /\ snap' = [snap EXCEPT !.header = csv_fieldnames]
    /\ UNCHANGED <<fs, clock, csv_file, action, pc, scan_db, csv_db, scan_idx,
                   csv_idx, msgs, outcome, iters, oldSnap, hashedAt, created, log>>

\* writer.writerow(fileinfo) for the next record of scan_db
WriteRecord ==
    /\ pc = "write"
    /\ snap.header # << >>
    /\ Len(snap.rows) < Len(scan_db)
    /\ snap' = [snap EXCEPT !.rows = Append(@, WriteRow(scan_db[Len(@) + 1]))]
    /\ UNCHANGED <<fs, clock, csv_file, action, pc, scan_db, csv_db, scan_idx,
                   csv_idx, msgs, outcome, iters, oldSnap, hashedAt, created, log>>

\* the with block ends: the file is complete, the summary is printed
CloseCsv ==
    /\ pc = "write"
    /\ snap.header # << >>
    /\ Len(snap.rows) = Len(scan_db)
    /\ pc' = "done"
    /\ outcome' = "hashed"
    /\ hashedAt' = Len(log)
    /\ created' = ~oldSnap.exists
    /\ UNCHANGED <<fs, clock, csv_file, snap, action, scan_db, csv_db, scan_idx,
                   csv_idx, msgs, iters, oldSnap, log>>

\* a write raises (the disk is full, a file name cannot be encoded): the with
\* block closes the file as far as it was written
WriteFails ==
    /\ pc = "write"
    /\ pc' = "done"
    /\ outcome' = "exception_write"
    /\ UNCHANGED <<fs, clock, csv_file, snap, action, scan_db, csv_db, scan_idx,
                   csv_idx, msgs, iters, oldSnap, hashedAt, created, log>>

(***************************************************************************)
(* The user, between runs.                                                 *)
(***************************************************************************)
FileX == [kind |-> "file", mtime |-> 0, content |-> <<120>>, target |-> << >>]
DirE == [kind |-> "dir", mtime |-> 0, content |-> << >>, target |-> << >>]
LnkE == [kind |-> "lnk", mtime |-> 0, content |-> << >>, target |-> NameB]
Special(k) == [kind |-> k, mtime |-> 0, content |-> << >>, target |-> << >>]

\* what the last run left behind plays no part in what follows
Forget ==
    /\ pc' = "idle"
    /\ scan_db' = << >>
    /\ csv_db' = << >>
    /\ scan_idx' = 0
    /\ csv_idx' = 0
    /\ msgs' = << >>
    /\ outcome' = "none"
    /\ iters' = 0
    /\ oldSnap' = snap

CanHold(f, loc) ==
    IF Parent(loc) = << >> THEN TRUE ELSE f[Parent(loc)].kind = "dir"

\* a new regular file is created
CreateFile(loc) ==
    /\ Idle /\ Hashed /\ Len(log) < MaxEdits
    /\ fs[loc].kind = "none"
    /\ CanHold(fs, loc)
    /\ \E t \in Stamps :
          /\ fs' = TouchDir([fs EXCEPT ![loc] = [FileX EXCEPT !.mtime = t]],
                            Parent(loc), t)
          /\ clock' = t
    /\ log' = Append(log, [op |-> "create", loc |-> loc])
    /\ Forget
    /\ UNCHANGED <<csv_file, snap, action, hashedAt, created>>

\* a regular file is removed and a directory of the same name is made
ReplaceFileByDir(loc) ==
    /\ Idle /\ Hashed /\ Len(log) < MaxEdits
    /\ fs[loc].kind = "file"
    /\ \E t \in Stamps :
          /\ fs' = TouchDir([fs EXCEPT ![loc] = [DirE EXCEPT !.mtime = t]],
                            Parent(loc), t)
          /\ clock' = t
    /\ log' = Append(log, [op |-> "mkdir", loc |-> loc])
    /\ Forget
    /\ UNCHANGED <<csv_file, snap, action, hashedAt, created>>

(***************************************************************************)
(* Spec: hash and check runs over a tree the user changes in between.      *)
(***************************************************************************)
\* what data_dir holds under one name at the start
RootChoices ==
    {NoEntry, FileX, DirE, LnkE} \cup {Special(k) : k \in {"chr", "blk", "fifo", "sock", "other"}}

WellFormed(f) ==
    \A loc \in Locs : f[loc].kind # "none" => CanHold(f, loc)

InitTrees ==
    {f \in [Locs -> RootChoices] :
        /\ WellFormed(f)
        /\ f[<<NameA>>].kind \in {"none", "file", "dir"}
        /\ f[<<NameB>>].kind # "dir"
        /\ f[<<NameA, NameA>>].kind \in {"none", "file"}
        /\ f[<<NameA, NameB>>].kind = "none"}

CsvPlaces ==
    {OutsideCsv, DataDir \o <<CsvName>>, DataDir \o <<NameA, CsvName>>}

InitRun ==
    /\ clock = 0
    /\ action = "check"
    /\ pc = "idle"
    /\ scan_db = << >>
    /\ csv_db = << >>
    /\ scan_idx = 0
    /\ csv_idx = 0
    /\ msgs = << >>
    /\ outcome = "none"
    /\ iters = 0
    /\ hashedAt = -1
    /\ created = FALSE
    /\ log = << >>

Init ==
    /\ fs \in InitTrees
    /\ csv_file \in CsvPlaces
    /\ snap = NoFile
    /\ oldSnap = NoFile
    /\ InitRun

Next ==
    \/ \E a \in {"hash", "check"} : Scan(a)
    \/ \E a \in {"hash", "check"} : ScanIoError(a)
    \/ LoadCsv
    \/ CompareStep
    \/ CheckFinish
    \/ HashNoFile
    \/ HashAsk
    \/ OpenCsv
    \/ WriteHeader
    \/ WriteRecord
    \/ CloseCsv
    \/ WriteFails
    \/ \E loc \in Locs : CreateFile(loc)
    \/ \E loc \in Locs : ReplaceFileByDir(loc)

Spec == Init /\ [][Next]_vars


(***************************************************************************)
(* SpecDiff: one check run for every pair of a small tree and a hash file  *)
(* made by hand (rows in any order, repeated, columns missing or added).   *)
(***************************************************************************)
DiffFile(c, t) == [kind |-> "file", mtime |-> t, content |-> c, target |-> << >>]

DiffTrees ==
    {f \in [Locs -> {NoEntry, DiffFile(<<120>>, 1), DiffFile(<<121>>, 2),
                     DiffFile(<<121>>, 1), [LnkE EXCEPT !.mtime = 1],
                     [DirE EXCEPT !.mtime = 1]}] :
        /\ WellFormed(f)
        /\ f[<<NameA>>].kind \in {"none", "dir"}
        /\ f[<<NameB>>] \in {NoEntry, DiffFile(<<120>>, 1), DiffFile(<<121>>, 2),
                             [LnkE EXCEPT !.mtime = 1]}
        /\ f[<<NameA, NameA>>] \in {NoEntry, DiffFile(<<121>>, 1), DiffFile(<<121>>, 2)}
        /\ f[<<NameA, NameB>>] = NoEntry}

\* the records a row of such a file is made of
DiffRecords ==
    {scan_file(Join(x[1]), x[2][x[1]]) :
        x \in {y \in Locs \X DiffTrees : y[2][y[1]].kind # "none"}}

DiffHeaders ==
    {csv_fieldnames,
     <<"filename", "type", "mtime", "size", "md5", "sha256">>,
     csv_fieldnames \o <<"note">>}

\* the row of a record under a header; a column the program does not know
\* holds the cell 'n'
RowFor(h, rec) ==
    [i \in 1..Len(h) |-> IF h[i] \in FieldSet THEN rec[h[i]] ELSE <<110>>]

DiffFiles ==
    {NoFile, EmptyFile, [exists |-> TRUE, header |-> <<"type">>, rows |-> << >>]}
    \cup {[exists |-> TRUE, header |-> h,
           rows |-> [i \in 1..Len(recs) |-> RowFor(h, recs[i])]] :
            h \in DiffHeaders,
            recs \in UNION {[1..n -> DiffRecords] : n \in 0..MaxRows}}

InitDiff ==
    /\ fs \in DiffTrees
    /\ csv_file = OutsideCsv
    /\ snap \in DiffFiles
    /\ oldSnap = NoFile
    /\ InitRun

NextDiff ==
    \/ Scan("check")
    \/ LoadCsv
    \/ CompareStep
    \/ CheckFinish

SpecDiff == InitDiff /\ [][NextDiff]_vars


(***************************************************************************)
(* Vocabulary of the properties.                                           *)
(***************************************************************************)
PathsOf(db) == {db[i].filename : i \in 1..Len(db)}
DupFree(db) == \A i, j \in 1..Len(db) : i # j => db[i].filename # db[j].filename
RecordAt(db, p) == db[CHOOSE i \in 1..Len(db) : db[i].filename = p]

\* a set of paths in ascending order
RECURSIVE Ascending(_)
Ascending(S) ==
    IF S = {} THEN << >>
    ELSE LET m == CHOOSE x \in S : \A y \in S \ {x} : StrLess(x, y)
         IN  <<m>> \o Ascending(S \ {m})

\* the recognized fields, by position, in which two records of a path differ
DifferingFields(a, b) ==
    {i \in 1..Len(csv_fieldnames) : Get(a, csv_fieldnames[i]) # Get(b, csv_fieldnames[i])}

\* one delta line per differing field, in the fields' order
ExpectedDeltas(a, b) ==
    [k \in 1..Cardinality(DifferingFields(a, b)) |->
        LET D == DifferingFields(a, b)
            i == CHOOSE x \in D : Cardinality({j \in D : j < x}) = k - 1
            field == csv_fieldnames[i]
        IN  [kind |-> "delta", filename |-> a.filename, field |-> field,
             old |-> Shown(field, Get(b, field)),
             new |-> Shown(field, Get(a, field))]]

\* what the comparison owes for one path
ExpectedFor(p, scan, snapshot) ==
    IF p \notin PathsOf(scan) THEN <<MissingFromDisk(p)>>
    ELSE IF p \notin PathsOf(snapshot) THEN <<MissingFromHashFile(p)>>
    ELSE IF RecordAt(scan, p) = RecordAt(snapshot, p) THEN << >>
    ELSE <<Changed(p)>> \o ExpectedDeltas(RecordAt(scan, p), RecordAt(snapshot, p))

RECURSIVE ExpectedAlong(_, _, _)
ExpectedAlong(paths, scan, snapshot) ==
    IF paths = << >> THEN << >>
    ELSE ExpectedFor(Head(paths), scan, snapshot)
            \o ExpectedAlong(Tail(paths), scan, snapshot)

ExpectedMsgs(scan, snapshot) ==
    ExpectedAlong(Ascending(PathsOf(scan) \cup PathsOf(snapshot)), scan, snapshot)

\* how many of the messages are m
Count(m) == Cardinality({i \in 1..Len(msgs) : msgs[i] = m})
MsgsOfKind(k) == {i \in 1..Len(msgs) : msgs[i].kind = k}

\* a check run has ended and it did not die of an exception
CheckDone == action = "check" /\ pc = "done" /\ outcome \in {"success", "exit1"}

\* the check run that has ended follows a hash run that succeeded and exactly
\* one change by the user, e
CheckedAfter(e) == CheckDone /\ Hashed /\ SinceHash = <<e>>

(***************************************************************************)
(* C1.  Round trip, as claimed: a check run that follows a hash run that   *)
(* succeeded, with no change to the tree in between, emits no mismatch and *)
(* ends with the success summary, wherever the hash file lies.             *)
(***************************************************************************)
C1_RoundTrip ==
    (CheckDone /\ Hashed /\ SinceHash = << >>)
        => (msgs = << >> /\ outcome = "success")

(***************************************************************************)
(* C2.  Kind change, as claimed: a regular file replaced by a directory of *)
(* the same name is reported as one `properties have changed' mismatch     *)
(* with a delta on `type', and not as a missing pair.                      *)
(***************************************************************************)
C2_KindChangeAsClaimed ==
    \A loc \in Locs :
        CheckedAfter([op |-> "mkdir", loc |-> loc]) =>
            LET names == {Join(loc), Join(loc) \o Slash}
            IN  /\ \E q \in names :
                      /\ Count(Changed(q)) = 1
                      /\ \E i \in MsgsOfKind("delta") :
                            msgs[i].filename = q /\ msgs[i].field = "type"
                /\ \A i \in MsgsOfKind("disk") \cup MsgsOfKind("hashfile") :
                      msgs[i].filename \notin names

(***************************************************************************)
(* C2, amended: the directory is recorded under the name with '/' appended,*)
(* so the check reports the old name as missing from disk and the new name *)
(* as missing from the hash file, once each, reports no change of          *)
(* properties for either name, and fails.                                  *)
(***************************************************************************)
C2_KindChange ==
    \A loc \in Locs :
        CheckedAfter([op |-> "mkdir", loc |-> loc]) =>
            /\ Count(MissingFromDisk(Join(loc))) = 1
            /\ Count(MissingFromHashFile(Join(loc) \o Slash)) = 1
            /\ \A i \in MsgsOfKind("changed") \cup MsgsOfKind("delta") :
                  msgs[i].filename \notin {Join(loc), Join(loc) \o Slash}
            /\ outcome = "exit1"

C2_Witness ==
    /\ CheckedAfter([op |-> "mkdir", loc |-> <<NameA, NameA>>])
    /\ Count(MissingFromDisk(Join(<<NameA, NameA>>))) = 1

(***************************************************************************)
(* C3.  Addition, as claimed: one new file, anywhere in the tree, makes    *)
(* the check emit exactly one mismatch, `missing from the hash file' for   *)
(* the new path, and fail.                                                 *)
(***************************************************************************)
C3_AdditionAsClaimed ==
    \A loc \in Locs :
        CheckedAfter([op |-> "create", loc |-> loc]) =>
            /\ msgs = <<MissingFromHashFile(Join(loc))>>
            /\ outcome = "exit1"

\* the directories whose recorded mtime creating the file at loc, or the
\* hash run's creating the hash file, can have changed
TouchedDirs(loc) ==
    (IF Parent(loc) # << >> THEN {Join(Parent(loc)) \o Slash} ELSE {})
    \cup (IF created /\ CsvInTree /\ CsvDirLoc # << >>
          THEN {Join(CsvDirLoc) \o Slash} ELSE {})

(***************************************************************************)
(* C3, amended: the check emits exactly one `missing from the hash file'   *)
(* mismatch, for the new path, and no `missing from disk' mismatch, and    *)
(* fails; any other mismatch is a change of properties of a directory      *)
(* whose mtime moved: the new file's parent directory, or the directory in *)
(* which the hash run created the hash file.                               *)
(***************************************************************************)
C3_Addition ==
    \A loc \in Locs :
        CheckedAfter([op |-> "create", loc |-> loc]) =>
            /\ Count(MissingFromHashFile(Join(loc))) = 1
            /\ Cardinality(MsgsOfKind("hashfile")) = 1
            /\ MsgsOfKind("disk") = {}
            /\ \A i \in MsgsOfKind("changed") \cup MsgsOfKind("delta") :
                  msgs[i].filename \in TouchedDirs(loc)
            /\ outcome = "exit1"

C3_Witness ==
    /\ CheckedAfter([op |-> "create", loc |-> <<NameA, NameB>>])
    /\ Count(Changed(NameA \o Slash)) = 1
    /\ Count(MissingFromHashFile(Join(<<NameA, NameB>>))) = 1

(***************************************************************************)
(* C4.  The comparison of a scan with a hash file free of duplicate paths: *)
(* the messages are, path by path in ascending order, `missing from disk'  *)
(* for a path of the hash file alone, `missing from the hash file' for a   *)
(* path of the scan alone, `properties have changed' with one delta per    *)
(* differing recognized field for a path of both whose records differ, and *)
(* nothing for a path whose records are equal; every iteration of the loop *)
(* advances an index, neither index passes its list's end, and no          *)
(* duplicate is reported.                                                  *)
(***************************************************************************)
C4_Differ ==
    (pc \in {"compare", "done"} /\ outcome \notin {"fatal_nofile", "fatal_nofilename",
                                                   "fatal_unknown", "exception_load"}
        /\ DupFree(csv_db)) =>
        /\ iters <= scan_idx + csv_idx
        /\ scan_idx <= Len(scan_db)
        /\ csv_idx <= Len(csv_db)
        /\ outcome # "fatal_duplicate"
        /\ (pc = "done" => msgs = ExpectedMsgs(scan_db, csv_db))

C4_Witness ==
    /\ pc = "done"
    /\ DupFree(csv_db)
    /\ MsgsOfKind("disk") # {}
    /\ MsgsOfKind("hashfile") # {}
    /\ \E i \in MsgsOfKind("delta") : msgs[i].field = "mtime"
    /\ iters < scan_idx + csv_idx

(***************************************************************************)
(* C5.  A check run that is not ended by a fatal error ends with exit      *)
(* status 1 exactly when a mismatch was emitted, and with the success      *)
(* summary otherwise; it ends only once both lists are exhausted, and      *)
(* while it compares, no mismatch has ended it.                            *)
(***************************************************************************)
C5_CheckOutcome ==
    /\ (action = "check" /\ pc = "done" /\ outcome \notin Fatal \cup Exceptions) =>
          /\ outcome \in {"exit1", "success"}
          /\ ~LoopCond
          /\ outcome = "exit1" <=> msgs # << >>
    /\ (action = "check" /\ pc = "compare") => outcome = "running"

C5_Witness ==
    /\ action = "check" /\ pc = "done" /\ outcome = "exit1"
    /\ Cardinality(MsgsOfKind("disk") \cup MsgsOfKind("hashfile")
                      \cup MsgsOfKind("changed")) >= 3

(***************************************************************************)
(* C6.  Duplicate paths, as claimed: a hash file with two rows of the same *)
(* filename is refused when it is loaded: the run ends with the duplicate  *)
(* entries error and no mismatch is emitted before it.                     *)
(***************************************************************************)
SnapHasDuplicate ==
    LoadResult(snap) = "ok" /\ ~DupFree(ReadRows(snap.header, snap.rows))

C6_DuplicateRejected ==
    (SnapHasDuplicate /\ pc \in {"compare", "done"}) =>
        /\ msgs = << >>
        /\ (pc = "done" => outcome = "fatal_duplicate")

(***************************************************************************)
(* C7.  Replacement of the hash file, as claimed: whenever a hash run over *)
(* an existing hash file has stopped, the file is the complete old one or  *)
(* the complete new one.                                                   *)
(***************************************************************************)
C7_AtomicReplace ==
    (action = "hash" /\ pc = "done" /\ oldSnap.exists) =>
        (snap = oldSnap \/ snap = WriteCsv(scan_db))

(***************************************************************************)
(* C8.  I/O errors of the scan, as claimed: a check run in which reading   *)
(* an entry fails does not die of it; it reports the failure as a          *)
(* mismatch, goes on, and ends with exit status 1.                         *)
(***************************************************************************)
C8_IoErrorNotFatal ==
    (action = "check" /\ pc = "done") => outcome # "exception_scan"

(***************************************************************************)
(* C9.  Fields of a record, as claimed: size, md5 and sha256 are empty     *)
(* unless the type is file, and link is empty unless the type is lnk.      *)
(***************************************************************************)
C9_RecordFields ==
    \A i \in 1..Len(scan_db) :
        /\ scan_db[i].type # T_file =>
              (scan_db[i].size = << >> /\ scan_db[i].md5 = << >>
                  /\ scan_db[i].sha256 = << >>)
        /\ scan_db[i].type # T_lnk => scan_db[i].link = << >>

(***************************************************************************)
(* C10.  As claimed: every `properties have changed' mismatch is followed  *)
(* by a delta line of the same path, whatever columns the hash file has.   *)
(***************************************************************************)
C10_ChangedHasDelta ==
    \A i \in MsgsOfKind("changed") :
        /\ i < Len(msgs)
        /\ msgs[i + 1].kind = "delta"
        /\ msgs[i + 1].filename = msgs[i].filename

====
